---------------------------- MODULE Spec2Model ----------------------------
(***************************************************************************)
(* Model of src/main.py: the ledger reconciler of the lab-report bot.      *)
(*                                                                         *)
(* A text (cell content, analyte name, date, value) is a sequence of       *)
(* one-character strings; the empty text <<>> is an empty cell.  A sheet   *)
(* is a sparse grid: a function from the <<row, column>> pairs of its      *)
(* non-empty cells to their texts.  The store keeps what is written        *)
(* verbatim (no USER_ENTERED re-formatting is modelled).                   *)
(*                                                                         *)
(* Three specifications share the variables:                               *)
(*   Spec     handle_pdf run by two workers, one store request per step,   *)
(*            each request able to fail (a bounded number of times);       *)
(*   SpecOps  the reconciler's operations called directly, one whole       *)
(*            call per step, on one sheet, with arbitrary arguments;       *)
(*   SpecFun  the functions without store access (column_number_to_letter, *)
(*            parse_pdf) called once, with arbitrary arguments.            *)
(***************************************************************************)
EXTENDS Integers, Sequences, FiniteSets, TLC

\* ------------------------------------------------------------------ bounds
\* documents handled in one run, over both workers
MaxDocs == 2
\* store requests that fail in one run
MaxFail == 1
\* direct calls of the reconciler's operations in one run of SpecOps
MaxOps == 3
\* the column numbers column_number_to_letter is called with in SpecFun
MaxColumn == 730
\* lines of the documents parse_pdf is called with in SpecFun
MaxLines == 2

\* ------------------------------------------------------------------- texts
Empty == <<>>

\* str.lower() on one character, for the characters the model uses
LowerChar(c) ==
  CASE c = "G" -> "g"
    [] c = "H" -> "h"
    [] c = "P" -> "p"
    [] c = "R" -> "r"
    [] OTHER -> c

lower(s) == [i \in 1..Len(s) |-> LowerChar(s[i])]

RECURSIVE lstrip(_)
lstrip(s) == IF s # <<>> /\ Head(s) = " " THEN lstrip(Tail(s)) ELSE s

RECURSIVE rstrip(_)
rstrip(s) ==
  IF s # <<>> /\ s[Len(s)] = " " THEN rstrip(SubSeq(s, 1, Len(s) - 1)) ELSE s

\* str.strip()
strip(s) == rstrip(lstrip(s))

\* name.strip().lower(), the comparison key of lines 230 and 430-432
NormKey(s) == lower(strip(s))

\* the header labels of line 158
AnalyteLabel == <<"P", "o", "k">>
ReferenceLabel == <<"R", "e", "f">>
\* the sheet title used when no name is found (line 301)
DefaultName == <<"P", "a", "t">>
\* datetime.now().strftime("%d.%m.%Y") (line 307)
Today == <<"0", "9", ".", "0", "9">>

\* ------------------------------------------------------------------ sheets
EmptyGrid == << >>

Cell(g, r, c) == IF <<r, c>> \in DOMAIN g THEN g[<<r, c>>] ELSE Empty

\* values().update of one cell: an empty text clears the cell
SetCell(g, r, c, v) ==
  IF v = Empty
  THEN [x \in DOMAIN g \ {<<r, c>>} |-> g[x]]
  ELSE [x \in DOMAIN g \cup {<<r, c>>} |-> IF x = <<r, c>> THEN v ELSE g[x]]

MaxOf(S) == IF S = {} THEN 0 ELSE CHOOSE m \in S : \A x \in S : x <= m

LastRowOfCol(g, c) == MaxOf({x[1] : x \in {y \in DOMAIN g : y[2] = c}})
LastColOfRow(g, r) == MaxOf({x[2] : x \in {y \in DOMAIN g : y[1] = r}})

\* values().get of A:A, then r[0] of every row
read_column_a(g) == [r \in 1..LastRowOfCol(g, 1) |-> Cell(g, r, 1)]

\* values().get of 1:1, then [0]
HeaderRow(g) == [c \in 1..LastColOfRow(g, 1) |-> Cell(g, 1, c)]

\* values().append at A:A: the rows go below the last row of column A
RECURSIVE append_rows(_, _)
append_rows(g, rows) ==
  IF rows = <<>> THEN g
  ELSE LET r == LastRowOfCol(g, 1) + 1
           g1 == SetCell(SetCell(g, r, 1, Head(rows)[1]), r, 2, Head(rows)[2])
       IN append_rows(g1, Tail(rows))

Range(s) == {s[i] : i \in 1..Len(s)}

\* the first 1-based position of x in s, 0 when absent (list.index, enumerate)
IndexOf(s, x) ==
  IF x \in Range(s) THEN CHOOSE i \in 1..Len(s) : s[i] = x /\ \A j \in 1..(i - 1) : s[j] # x
  ELSE 0

\* ------------------------------------------------------------ pure helpers
\* as Missing, without the test against the existing rows
Missing_All(analytes_keys, existing) == analytes_keys

\* ensure_rows_for_analytes, line 193: [a for a in analytes if a not in existing]
Missing(analytes_keys, existing) ==
  SelectSeq(analytes_keys, LAMBDA a : a \notin Range(existing))

\* line 195: [[m, ""] for m in missing]
RowsFor(names) == [i \in 1..Len(names) |-> <<names[i], Empty>>]

Letters ==
  <<"A", "B", "C", "D", "E", "F", "G", "H", "I", "J", "K", "L", "M",
    "N", "O", "P", "Q", "R", "S", "T", "U", "V", "W", "X", "Y", "Z">>

\* as column_number_to_letter, in ordinary base 26 (A the zero digit)
RECURSIVE column_number_to_letter_Zero(_)
column_number_to_letter_Zero(n) ==
  IF n > 0
  THEN column_number_to_letter_Zero(n \div 26) \o <<Letters[(n % 26) + 1]>>
  ELSE <<>>

\* lines 199-204: divmod(n - 1, 26), the digit put in front of the result
RECURSIVE column_number_to_letter(_)
column_number_to_letter(n) ==
  IF n > 0
  THEN column_number_to_letter((n - 1) \div 26) \o <<Letters[((n - 1) % 26) + 1]>>
  ELSE <<>>

\* the store's reading of the column letters of an A1 range
RECURSIVE ColumnOfLetters(_)
ColumnOfLetters(l) ==
  IF l = <<>> THEN 0
  ELSE 26 * ColumnOfLetters(SubSeq(l, 1, Len(l) - 1)) + IndexOf(Letters, l[Len(l)])

\* as HeaderIndex, with a membership test that never succeeds
HeaderIndex_Never(header, date) == 0

\* get_next_date_column, lines 212-213: the position of the date in the header
\* (0: absent)
HeaderIndex(header, date) == IndexOf(header, date)

\* as DateColumnNumber, a new date put at the last position of the header
DateColumnNumber_Last(header, date) ==
  IF HeaderIndex(header, date) > 0 THEN HeaderIndex(header, date)
  ELSE Len(header)

\* get_next_date_column, lines 212-217: the column number the call settles on
DateColumnNumber(header, date) ==
  IF HeaderIndex(header, date) > 0 THEN HeaderIndex(header, date)
  ELSE Len(header) + 1

\* get_row_for_analyte, lines 228-232: the first row whose name matches,
\* 0 for None
get_row_for_analyte(col_a, analyte) ==
  LET hits == {i \in 1..Len(col_a) : NormKey(col_a[i]) = NormKey(analyte)}
  IN IF hits = {} THEN 0 ELSE CHOOSE i \in hits : \A j \in hits : i <= j

\* A dict is a sequence of <<key, value>> pairs in insertion order.
Keys(d) == [i \in 1..Len(d) |-> d[i][1]]
KeySet(d) == {d[i][1] : i \in 1..Len(d)}
DictSet(d, k, v) ==
  IF k \in KeySet(d)
  THEN [i \in 1..Len(d) |-> IF d[i][1] = k THEN <<k, v>> ELSE d[i]]
  ELSE Append(d, <<k, v>>)

\* line 430: {r.strip().lower(): r for r in sheet_rows}, then .get(key):
\* the last row name with that key, Empty for None
LowerMapGet(sheet_rows, key) ==
  LET hits == {i \in 1..Len(sheet_rows) : NormKey(sheet_rows[i]) = key}
  IN IF hits = {} THEN Empty
     ELSE sheet_rows[CHOOSE i \in hits : \A j \in hits : j <= i]

\* lines 427-438: the dict handed to write_values
RECURSIVE ValuesForWrite(_, _, _)
ValuesForWrite(analytes, sheet_rows, acc) ==
  IF analytes = <<>> THEN acc
  ELSE LET name == Head(analytes)[1]
           value == Head(analytes)[2]
           target_name == LowerMapGet(sheet_rows, NormKey(name))
       IN ValuesForWrite(Tail(analytes), sheet_rows,
            DictSet(acc, IF target_name # Empty THEN target_name ELSE name, value))

\* ------------------------------------------------------------------ parser
\* A document is [readable, pages]; a page is a sequence of lines; a line
\* says what each pattern of parse_pdf extracts from it:
\*   blank  the line is whitespace only (dropped at line 278)
\*   fio    the name found by the patterns of lines 283-300, or Empty
\*   label  the line's date follows the sample-date label of line 304
\*   date   the date of the line as it is written, or Empty
\*   prim   <<name, value>> of the structural pattern (lines 312-324), or <<>>
\*   loose  <<name, value>> of the token pattern (lines 328-332), or <<>>
\* A date is written day, separator, month; the year that follows in the
\* source's patterns (a separator and four digits in every notation) is left
\* out of the texts.
Line(fio, date, prim, loose) ==
  [blank |-> FALSE, fio |-> fio, label |-> FALSE, date |-> date,
   prim |-> prim, loose |-> loose]
BlankLine ==
  [blank |-> TRUE, fio |-> Empty, label |-> FALSE, date |-> Empty,
   prim |-> <<>>, loose |-> <<>>]

Digits == {"0", "1", "2", "3", "4", "5", "6", "7", "8", "9"}
Separators == {".", "-", "/"}

\* line 304, the group after the label: [0-3]?\d [.\-/] [01]?\d
MatchesLabelled(t) ==
  \E p \in {2, 3} :
    /\ Len(t) - p \in {1, 2}
    /\ t[p] \in Separators
    /\ \A i \in 1..Len(t) : i # p => t[i] \in Digits
    /\ p = 3 => t[1] \in {"0", "1", "2", "3"}
    /\ Len(t) - p = 2 => t[p + 1] \in {"0", "1"}

\* line 306: \d{2} [.\-/] \d{2}
MatchesBare(t) ==
  /\ Len(t) = 5
  /\ t[3] \in Separators
  /\ \A i \in {1, 2, 4, 5} : t[i] \in Digits

RECURSIVE Flatten(_)
Flatten(pages) == IF pages = <<>> THEN <<>> ELSE Head(pages) \o Flatten(Tail(pages))

\* lines 275-278: the non-blank lines of the non-empty pages, in order
NormalizedLines(pages) == SelectSeq(Flatten(pages), LAMBDA ln : ~ln.blank)

FirstOr(s, default) == IF s = <<>> THEN default ELSE Head(s)

\* lines 281-301
FullName(lines) ==
  FirstOr([i \in 1..Len(SelectSeq(lines, LAMBDA ln : ln.fio # Empty)) |->
             SelectSeq(lines, LAMBDA ln : ln.fio # Empty)[i].fio], DefaultName)

\* lines 303-307: the first labelled date of the text; without one, the first
\* date of two-digit day and month; without one, today.  group(1) is returned
\* as it is written.
DateStr(lines) ==
  LET labelled == SelectSeq(lines, LAMBDA ln : ln.label /\ MatchesLabelled(ln.date))
      bare == SelectSeq(lines, LAMBDA ln : MatchesBare(ln.date))
  IN IF labelled # <<>> THEN Head(labelled).date
     ELSE IF bare # <<>> THEN Head(bare).date
     ELSE Today

RECURSIVE Collect(_, _, _)
Collect(lines, field, acc) ==
  IF lines = <<>> THEN acc
  ELSE LET m == IF field = "prim" THEN Head(lines).prim ELSE Head(lines).loose
       IN Collect(Tail(lines), field,
                  IF m = <<>> THEN acc ELSE DictSet(acc, m[1], m[2]))

\* as Analytes, the token pattern filling in what the structural pattern
\* left out
Analytes_Mixed(lines) == Collect(lines, "loose", Collect(lines, "prim", <<>>))

\* lines 310-332: the structural pattern over every line; the token pattern
\* only when that gave nothing
Analytes(lines) ==
  IF Collect(lines, "prim", <<>>) # <<>> THEN Collect(lines, "prim", <<>>)
  ELSE Collect(lines, "loose", <<>>)

\* parse_pdf, lines 260-334, for a readable document
parse_pdf(doc) ==
  LET lines == NormalizedLines(doc.pages)
  IN [full_name |-> FullName(lines), date_str |-> DateStr(lines),
      analytes |-> Analytes(lines)]

\* --------------------------------------------------------------- documents
Ivanov == <<"I", "v">>
Glu == <<"G", "l", "u">>
glu == <<"g", "l", "u">>
Hb == <<"H", "b">>
D1 == <<"0", "1", ".", "0", "2">>
D2 == <<"0", "3", ".", "0", "2">>

FioLine(name) == Line(name, Empty, <<>>, <<>>)
Dated(date) == Line(Empty, date, <<>>, <<>>)
Result(name, value) == Line(Empty, Empty, <<name, value>>, <<name, value>>)
\* a date after the label "Дата взятия образца"
Labelled(date) == [Line(Empty, date, <<>>, <<>>) EXCEPT !.label = TRUE]
\* a line only the token pattern of line 328 finds a name and a number in
Loose(name, value) == Line(Empty, Empty, <<>>, <<name, value>>)

\* two analytes, first sample date
DocA ==
  [readable |-> TRUE,
   pages |-> << <<FioLine(Ivanov), Dated(D1), BlankLine>>,
                <<Result(Glu, <<"5">>), Result(Hb, <<"6">>)>> >>]
\* the first analyte again, spelled in lower case, second sample date
DocB ==
  [readable |-> TRUE,
   pages |-> << <<FioLine(Ivanov), Dated(D2), Result(glu, <<"7">>)>> >>]
\* an analyte named like the label of column A
DocC ==
  [readable |-> TRUE,
   pages |-> << <<FioLine(Ivanov), Dated(D2), Result(AnalyteLabel, <<"8">>)>> >>]
\* no text on any page
DocE == [readable |-> TRUE, pages |-> << <<>>, <<BlankLine>> >>]
\* a file pdfplumber cannot open (lines 270-273)
DocU == [readable |-> FALSE, pages |-> <<>>]

\* the files a requester may send, by name
Docs == {"A", "B", "C", "E", "U"}
Document(file) ==
  CASE file = "A" -> DocA
    [] file = "B" -> DocB
    [] file = "C" -> DocC
    [] file = "E" -> DocE
    [] OTHER -> DocU

\* every page of the document yields empty text
NoText(doc) == doc.readable /\ NormalizedLines(doc.pages) = <<>>

\* ------------------------------------------------------------------- state
Workers == {1, 2}

VARIABLES
  sheets,   \* the spreadsheet: sheet title -> grid, for the sheets that exist
  worker,   \* per worker: its place in handle_pdf, its locals, what it did
  ndocs,    \* documents received so far
  nfail,    \* store requests that failed so far (injected failures)
  last,     \* SpecOps: the last direct call and what it did
  prev,     \* SpecOps: the call before it
  nops      \* SpecOps: direct calls so far

vars == <<sheets, worker, ndocs, nfail, last, prev, nops>>
opsVars == <<last, prev, nops>>

NoCall == [op |-> "none"]

Idle ==
  [pc |-> "idle", file |-> "none", outcome |-> "none",
   full_name |-> Empty, date_str |-> Empty, analytes |-> <<>>,
   missing |-> <<>>, col_letter |-> <<>>, values_for_write |-> <<>>,
   i |-> 0, row |-> 0,
   calls |-> 0, wv_reads |-> 0, wv_writes |-> 0,
   failed |-> "none", cell_failed |-> {}, cell_written |-> {}]

Init ==
  /\ sheets = << >>
  /\ worker = [w \in Workers |-> Idle]
  /\ ndocs = 0
  /\ nfail = 0
  /\ last = NoCall
  /\ prev = NoCall
  /\ nops = 0

\* ------------------------------------------------------ handle_pdf, by step
CanFail == nfail < MaxFail

Grid(w) == sheets[worker[w].full_name]

\* one more store request of the current document
Called(rec) == [rec EXCEPT !.calls = @ + 1]

\* handle_pdf returns: the locals of the helpers are gone
Returned(rec, reply) ==
  [rec EXCEPT !.pc = "idle", !.outcome = reply,
              !.missing = <<>>, !.col_letter = <<>>, !.i = 0, !.row = 0]

\* a store request failed and the exception reached handle_pdf's handler
Aborted(rec, kind, reply) ==
  Returned([Called(rec) EXCEPT !.failed = kind], reply)

\* as AfterParseFailure, going on to the store with the values parse_pdf
\* gives a document without text
AfterParseFailure_GoOn(file) ==
  [Idle EXCEPT !.file = file, !.outcome = "parse_error", !.pc = "sheet_names",
               !.full_name = DefaultName, !.date_str = Today]

\* handle_pdf, lines 389-392: parse_pdf raised; reply and return
AfterParseFailure(file) == [Idle EXCEPT !.file = file, !.outcome = "parse_error"]

\* lines 356-400: the document arrives and is parsed; no store request yet
ReceiveDocument(w, file, auth) ==
  /\ worker[w].pc = "idle"
  /\ ndocs < MaxDocs
  /\ ndocs' = ndocs + 1
  /\ worker' = [worker EXCEPT ![w] =
       IF ~Document(file).readable
       THEN AfterParseFailure(file)
       ELSE LET p == parse_pdf(Document(file))
                rec == [Idle EXCEPT !.file = file, !.full_name = p.full_name,
                          !.date_str = p.date_str, !.analytes = p.analytes]
            IN IF auth THEN [rec EXCEPT !.pc = "sheet_names"]
               ELSE [rec EXCEPT !.outcome = "auth_error"]]
  /\ UNCHANGED <<sheets, nfail, opsVars>>

\* ensure_patient_sheet, line 166: get_sheet_names
GetSheetNames(w) ==
  /\ worker[w].pc = "sheet_names"
  /\ \/ /\ worker' = [worker EXCEPT ![w] =
             [Called(@) EXCEPT !.pc =
                IF worker[w].full_name \in DOMAIN sheets THEN "rows_read" ELSE "add_sheet"]]
        /\ UNCHANGED nfail
     \/ /\ CanFail
        /\ nfail' = nfail + 1
        /\ worker' = [worker EXCEPT ![w] = Aborted(@, "list", "sheet_error")]
  /\ UNCHANGED <<sheets, ndocs, opsVars>>

\* create_patient_sheet, lines 142-151: addSheet; the store refuses a title
\* that exists
AddSheet(w) ==
  /\ worker[w].pc = "add_sheet"
  /\ \/ /\ worker[w].full_name \notin DOMAIN sheets
        /\ sheets' = [t \in DOMAIN sheets \cup {worker[w].full_name} |->
                        IF t = worker[w].full_name THEN EmptyGrid ELSE sheets[t]]
        /\ worker' = [worker EXCEPT ![w] = [Called(@) EXCEPT !.pc = "init_header"]]
        /\ UNCHANGED nfail
     \/ /\ worker[w].full_name \in DOMAIN sheets
        /\ worker' = [worker EXCEPT ![w] = Aborted(@, "add_sheet", "sheet_error")]
        /\ UNCHANGED <<sheets, nfail>>
     \/ /\ CanFail
        /\ nfail' = nfail + 1
        /\ worker' = [worker EXCEPT ![w] = Aborted(@, "add_sheet", "sheet_error")]
        /\ UNCHANGED sheets
  /\ UNCHANGED <<ndocs, opsVars>>

\* what a successful header initialisation leaves (lines 154-159)
InitHeaderCells(g) == SetCell(SetCell(g, 1, 1, AnalyteLabel), 1, 2, ReferenceLabel)

\* where handle_pdf goes on when the header initialisation failed: the
\* exception is caught and logged at line 160-161, the caller goes on
AfterInitHeaderFailure(rec) == [Called(rec) EXCEPT !.pc = "rows_read", !.failed = "init_header"]

\* create_patient_sheet, lines 153-161: the header row A1:B1
InitHeader(w) ==
  /\ worker[w].pc = "init_header"
  /\ \/ /\ sheets' = [sheets EXCEPT ![worker[w].full_name] = InitHeaderCells(@)]
        /\ worker' = [worker EXCEPT ![w] = [Called(@) EXCEPT !.pc = "rows_read"]]
        /\ UNCHANGED nfail
     \/ /\ CanFail
        /\ nfail' = nfail + 1
        /\ worker' = [worker EXCEPT ![w] = AfterInitHeaderFailure(@)]
        /\ UNCHANGED sheets
  /\ UNCHANGED <<ndocs, opsVars>>

\* ensure_rows_for_analytes, lines 192-194: read column A, compute missing
EnsureRowsRead(w) ==
  /\ worker[w].pc = "rows_read"
  /\ \/ /\ LET m == Missing(Keys(worker[w].analytes), read_column_a(Grid(w)))
           IN worker' = [worker EXCEPT ![w] =
                [Called(@) EXCEPT !.missing = m,
                   !.pc = IF m # <<>> THEN "rows_append" ELSE "header_read"]]
        /\ UNCHANGED nfail
     \/ /\ CanFail
        /\ nfail' = nfail + 1
        /\ worker' = [worker EXCEPT ![w] = Aborted(@, "col_a_read", "rows_error")]
  /\ UNCHANGED <<sheets, ndocs, opsVars>>

\* ensure_rows_for_analytes, lines 195-196: one append of all missing rows
EnsureRowsAppend(w) ==
  /\ worker[w].pc = "rows_append"
  /\ \/ /\ sheets' = [sheets EXCEPT ![worker[w].full_name] =
                        append_rows(@, RowsFor(worker[w].missing))]
        /\ worker' = [worker EXCEPT ![w] = [Called(@) EXCEPT !.pc = "header_read"]]
        /\ UNCHANGED nfail
     \/ /\ CanFail
        /\ nfail' = nfail + 1
        /\ worker' = [worker EXCEPT ![w] = Aborted(@, "append", "rows_error")]
        /\ UNCHANGED sheets
  /\ UNCHANGED <<ndocs, opsVars>>

\* get_next_date_column, lines 209-217: read the header, settle the column
HeaderRead(w) ==
  /\ worker[w].pc = "header_read"
  /\ \/ /\ LET header == HeaderRow(Grid(w))
           IN worker' = [worker EXCEPT ![w] =
                [Called(@) EXCEPT
                   !.col_letter =
                      column_number_to_letter(DateColumnNumber(header, worker[w].date_str)),
                   !.pc = IF HeaderIndex(header, worker[w].date_str) > 0
                          THEN "map_read" ELSE "header_write"]]
        /\ UNCHANGED nfail
     \/ /\ CanFail
        /\ nfail' = nfail + 1
        /\ worker' = [worker EXCEPT ![w] = Aborted(@, "header_read", "col_error")]
  /\ UNCHANGED <<sheets, ndocs, opsVars>>

\* get_next_date_column, lines 218-224: write the date into {col_letter}1
HeaderWrite(w) ==
  /\ worker[w].pc = "header_write"
  /\ \/ /\ sheets' = [sheets EXCEPT ![worker[w].full_name] =
                        SetCell(@, 1, ColumnOfLetters(worker[w].col_letter),
                                worker[w].date_str)]
        /\ worker' = [worker EXCEPT ![w] = [Called(@) EXCEPT !.pc = "map_read"]]
        /\ UNCHANGED nfail
     \/ /\ CanFail
        /\ nfail' = nfail + 1
        /\ worker' = [worker EXCEPT ![w] = Aborted(@, "header_write", "col_error")]
        /\ UNCHANGED sheets
  /\ UNCHANGED <<ndocs, opsVars>>

\* handle_pdf, line 448: write_values returned
Finished(rec) == Returned(rec, "ok")

\* handle_pdf, lines 427-438: read column A, build values_for_write; an
\* exception here is outside every try block and leaves handle_pdf uncaught
MapRead(w) ==
  /\ worker[w].pc = "map_read"
  /\ \/ /\ LET v == ValuesForWrite(worker[w].analytes, read_column_a(Grid(w)), <<>>)
           IN worker' = [worker EXCEPT ![w] =
                IF v = <<>> THEN Finished([Called(@) EXCEPT !.values_for_write = v])
                ELSE [Called(@) EXCEPT !.values_for_write = v, !.i = 1,
                                       !.pc = "find_row"]]
        /\ UNCHANGED nfail
     \/ /\ CanFail
        /\ nfail' = nfail + 1
        /\ worker' = [worker EXCEPT ![w] = Aborted(@, "col_a_read", "crash")]
  /\ UNCHANGED <<sheets, ndocs, opsVars>>

\* the entry of values_for_write the loop of line 240 is at
Analyte(rec) == rec.values_for_write[rec.i][1]
Value(rec) == rec.values_for_write[rec.i][2]

\* write_values, lines 241-242: get_row_for_analyte reads column A
FindRow(w) ==
  /\ worker[w].pc = "find_row"
  /\ \/ /\ LET r == get_row_for_analyte(read_column_a(Grid(w)), Analyte(worker[w]))
           IN worker' = [worker EXCEPT ![w] =
                [Called(@) EXCEPT !.row = r, !.wv_reads = @ + 1,
                   !.pc = IF r = 0 THEN "inline_append" ELSE "cell_write"]]
        /\ UNCHANGED nfail
     \/ /\ CanFail
        /\ nfail' = nfail + 1
        /\ worker' = [worker EXCEPT ![w] = Aborted(@, "col_a_read", "write_error")]
  /\ UNCHANGED <<sheets, ndocs, opsVars>>

\* write_values, line 244: the row is missing, append it at the bottom
InlineAppend(w) ==
  /\ worker[w].pc = "inline_append"
  /\ \/ /\ sheets' = [sheets EXCEPT ![worker[w].full_name] =
                        append_rows(@, RowsFor(<<Analyte(worker[w])>>))]
        /\ worker' = [worker EXCEPT ![w] = [Called(@) EXCEPT !.pc = "inline_reread"]]
        /\ UNCHANGED nfail
     \/ /\ CanFail
        /\ nfail' = nfail + 1
        /\ worker' = [worker EXCEPT ![w] = Aborted(@, "append", "write_error")]
        /\ UNCHANGED sheets
  /\ UNCHANGED <<ndocs, opsVars>>

\* write_values, lines 245-246: row = len(read_column_a(...))
InlineReread(w) ==
  /\ worker[w].pc = "inline_reread"
  /\ \/ /\ worker' = [worker EXCEPT ![w] =
             [Called(@) EXCEPT !.row = Len(read_column_a(Grid(w))),
                !.wv_reads = @ + 1, !.pc = "cell_write"]]
        /\ UNCHANGED nfail
     \/ /\ CanFail
        /\ nfail' = nfail + 1
        /\ worker' = [worker EXCEPT ![w] = Aborted(@, "col_a_read", "write_error")]
  /\ UNCHANGED <<sheets, ndocs, opsVars>>

\* as NextEntry, returning after the first entry
NextEntry_Stop(rec) == Finished(rec)

\* write_values, line 240: on to the next entry, or back to handle_pdf
NextEntry(rec) ==
  IF rec.i < Len(rec.values_for_write)
  THEN [rec EXCEPT !.i = @ + 1, !.pc = "find_row"]
  ELSE Finished(rec)

\* as AfterCellWriteFailure, leaving the loop at the first failed write
AfterCellWriteFailure_Stop(rec) ==
  Finished([Called(rec) EXCEPT !.wv_writes = @ + 1,
              !.cell_failed = @ \cup {Analyte(rec)}])

\* write_values, lines 255-256: a failed cell write is logged, the loop goes on
AfterCellWriteFailure(rec) ==
  NextEntry([Called(rec) EXCEPT !.wv_writes = @ + 1,
               !.cell_failed = @ \cup {Analyte(rec)}])

\* write_values, lines 247-256: one update request for the cell
CellWrite(w) ==
  /\ worker[w].pc = "cell_write"
  /\ LET rec == worker[w]
         c == ColumnOfLetters(rec.col_letter)
     IN \/ /\ sheets' = [sheets EXCEPT ![rec.full_name] =
                           SetCell(@, rec.row, c, Value(rec))]
           /\ worker' = [worker EXCEPT ![w] =
                NextEntry([Called(rec) EXCEPT !.wv_writes = @ + 1,
                             !.cell_written = @ \cup
                               {[analyte |-> Analyte(rec), row |-> rec.row,
                                 col |-> c, value |-> Value(rec)]}])]
           /\ UNCHANGED nfail
        \/ /\ CanFail
           /\ nfail' = nfail + 1
           /\ worker' = [worker EXCEPT ![w] = AfterCellWriteFailure(rec)]
           /\ UNCHANGED sheets
  /\ UNCHANGED <<ndocs, opsVars>>

WorkerStep(w) ==
  \/ \E file \in Docs, auth \in BOOLEAN : ReceiveDocument(w, file, auth)
  \/ GetSheetNames(w)
  \/ AddSheet(w)
  \/ InitHeader(w)
  \/ EnsureRowsRead(w)
  \/ EnsureRowsAppend(w)
  \/ HeaderRead(w)
  \/ HeaderWrite(w)
  \/ MapRead(w)
  \/ FindRow(w)
  \/ InlineAppend(w)
  \/ InlineReread(w)
  \/ CellWrite(w)

Next == \E w \in Workers : WorkerStep(w)

Spec == Init /\ [][Next]_vars

\* ------------------------------------------- the operations, called directly
\* SpecOps works on one sheet, as create_patient_sheet leaves it: with its
\* header row, or empty when the header initialisation failed (lines 153-161).
OpsSheet == Ivanov
OpsGrid == sheets[OpsSheet]

padded == <<"g", "l", "u", " ">>
OpsNames == {Glu, glu, padded, Hb}
OpsDates == {D1, D2}
OpsValues == {<<"5">>, <<"7">>}

\* the name sequences without repetition, of length 0 to 2
OpsNameSeqs ==
  {<<>>} \cup {<<a>> : a \in OpsNames}
         \cup {q \in {<<a, b>> : a \in OpsNames, b \in OpsNames} : q[1] # q[2]}

\* the dicts of one or two entries
OpsDicts ==
  {<< <<a, v>> >> : a \in OpsNames, v \in OpsValues}
    \cup {<< <<Hb, <<"5">> >>, <<a, <<"7">> >> >> : a \in OpsNames \ {Hb}}

\* three sample dates of earlier documents
E1 == <<"0", "5", ".", "0", "1">>
E2 == <<"0", "6", ".", "0", "1">>
E3 == <<"0", "7", ".", "0", "1">>

\* a sheet with its labels and the date columns C, D, E: what three documents
\* of three dates leave in the header row (lines 216-223)
LedgerCDE ==
  SetCell(SetCell(SetCell(InitHeaderCells(EmptyGrid), 1, 3, E1), 1, 4, E2), 1, 5, E3)

InitOps ==
  /\ sheets \in {[t \in {OpsSheet} |-> g] :
                   g \in {EmptyGrid, InitHeaderCells(EmptyGrid), LedgerCDE}}
  /\ worker = [w \in Workers |-> Idle]
  /\ ndocs = 0
  /\ nfail = 0
  /\ last = NoCall
  /\ prev = NoCall
  /\ nops = 0

\* ensure_rows_for_analytes, lines 191-196, as one call
ensure_rows_for_analytes(g, analytes_keys) ==
  append_rows(g, RowsFor(Missing(analytes_keys, read_column_a(g))))

\* get_next_date_column, lines 207-224, as one call: the sheet it leaves
get_next_date_column(g, date_str) ==
  LET header == HeaderRow(g)
  IN IF HeaderIndex(header, date_str) > 0 THEN g
     ELSE SetCell(g, 1,
            ColumnOfLetters(column_number_to_letter(DateColumnNumber(header, date_str))),
            date_str)

\* write_values, lines 235-256, as one call
RECURSIVE write_values(_, _, _)
write_values(g, col_letter, values_dict) ==
  IF values_dict = <<>> THEN g
  ELSE LET analyte == Head(values_dict)[1]
           found == get_row_for_analyte(read_column_a(g), analyte)
           g1 == IF found = 0 THEN append_rows(g, RowsFor(<<analyte>>)) ELSE g
           row == IF found = 0 THEN Len(read_column_a(g1)) ELSE found
       IN write_values(SetCell(g1, row, ColumnOfLetters(col_letter),
                               Head(values_dict)[2]),
                       col_letter, Tail(values_dict))

Record(op, arg, ret, writes) ==
  /\ nops < MaxOps
  /\ nops' = nops + 1
  /\ prev' = last
  /\ last' = [op |-> op, arg |-> arg, ret |-> ret, writes |-> writes,
              before |-> OpsGrid]
  /\ UNCHANGED <<worker, ndocs, nfail>>

CallEnsureRows(names) ==
  /\ sheets' = [sheets EXCEPT ![OpsSheet] = ensure_rows_for_analytes(@, names)]
  /\ Record("ensure_rows", names, <<>>,
            IF Missing(names, read_column_a(OpsGrid)) = <<>> THEN 0 ELSE 1)

CallGetNextDateColumn(date) ==
  /\ sheets' = [sheets EXCEPT ![OpsSheet] = get_next_date_column(@, date)]
  /\ Record("date_column", date,
            column_number_to_letter(DateColumnNumber(HeaderRow(OpsGrid), date)),
            IF HeaderIndex(HeaderRow(OpsGrid), date) > 0 THEN 0 ELSE 1)

\* write_values is handed a column that get_next_date_column returned
CallWriteValues(values_dict) ==
  /\ last.op = "date_column"
  /\ sheets' = [sheets EXCEPT ![OpsSheet] = write_values(@, last.ret, values_dict)]
  /\ Record("write_values", values_dict, <<>>, Len(values_dict))

NextOps ==
  \/ \E names \in OpsNameSeqs : CallEnsureRows(names)
  \/ \E date \in OpsDates : CallGetNextDateColumn(date)
  \/ \E values_dict \in OpsDicts : CallWriteValues(values_dict)

SpecOps == InitOps /\ [][NextOps]_vars

\* ------------------------------------------- the functions without the store
\* the lines a page of SpecFun is made of
OneSlashTwo == <<"1", "/", "2">>
OneDotTwo == <<"1", ".", "2">>
D1Dashed == <<"0", "1", "-", "0", "2">>

FunLines ==
  {FioLine(Ivanov), BlankLine,
   Labelled(D1), Labelled(OneSlashTwo), Dated(D1), Dated(OneDotTwo), Dated(D1Dashed),
   Result(Glu, <<"5">>), Loose(Hb, <<"6">>)}

\* the documents of one page of at most MaxLines lines
FunDocs ==
  {[readable |-> TRUE, pages |-> <<lines>>] :
     lines \in UNION {[1..k -> FunLines] : k \in 0..MaxLines}}

InitFun == Init

\* one call of a function: its argument and what it returned
Applied(op, arg, ret) == [op |-> op, arg |-> arg, ret |-> ret]

CallColumnNumberToLetter(n) ==
  /\ last = NoCall
  /\ last' = Applied("column_number_to_letter", n, column_number_to_letter(n))
  /\ UNCHANGED <<sheets, worker, ndocs, nfail, prev, nops>>

CallParsePdf(doc) ==
  /\ last = NoCall
  /\ last' = Applied("parse_pdf", doc, parse_pdf(doc))
  /\ UNCHANGED <<sheets, worker, ndocs, nfail, prev, nops>>

NextFun ==
  \/ \E n \in 1..MaxColumn : CallColumnNumberToLetter(n)
  \/ \E doc \in FunDocs : CallParsePdf(doc)

SpecFun == InitFun /\ [][NextFun]_vars

\* ------------------------------------------------------------------ claims
\* the rows of column A whose name matches the analyte, trimmed and without case
MatchingRows(g, analyte) ==
  {r \in 1..Len(read_column_a(g)) : NormKey(read_column_a(g)[r]) = NormKey(analyte)}

\* the columns whose header cell is the date
DateColumns(g, date) == {c \in 1..Len(HeaderRow(g)) : HeaderRow(g)[c] = date}

\* no other worker has received a document yet
Alone(w) ==
  \A v \in Workers \ {w} : worker[v].pc = "idle" /\ worker[v].outcome = "none"

\* the worker's document went through handle_pdf to the reply of line 448
Completed(w) == worker[w].pc = "idle" /\ worker[w].outcome = "ok"

\* C1 (SpecOps): the names of column A are pairwise distinct when compared
\* trimmed and without case, whatever the calls made so far.
C1_NamesUnique ==
  \A i, j \in 1..Len(read_column_a(OpsGrid)) :
    i # j => NormKey(read_column_a(OpsGrid)[i]) # NormKey(read_column_a(OpsGrid)[j])

\* C2 (Spec): when a document completes with no store failure in the run and
\* no other worker at work, every analyte's value (analytes named like the
\* label of column A left aside) is read back at the row matching its name
\* and the column whose header is the document's date.
C2_RoundTrip ==
  \A w \in Workers :
    (Completed(w) /\ Alone(w) /\ nfail = 0 /\ worker[w].failed = "none") =>
      \A k \in 1..Len(worker[w].analytes) :
        LET g == sheets[worker[w].full_name]
            rows == MatchingRows(g, worker[w].analytes[k][1])
            cols == DateColumns(g, worker[w].date_str)
        IN NormKey(worker[w].analytes[k][1]) # NormKey(AnalyteLabel) =>
             /\ rows # {}
             /\ cols # {}
             /\ \A r \in rows, c \in cols : Cell(g, r, c) = worker[w].analytes[k][2]

\* C3 (SpecOps): two calls of get_next_date_column in a row with the same date
\* return the same column, and the second writes nothing and leaves the header
\* row as long as it was.
C3_ColumnIdempotent ==
  (last.op = "date_column" /\ prev.op = "date_column" /\ last.arg = prev.arg) =>
    /\ last.ret = prev.ret
    /\ last.writes = 0
    /\ Len(HeaderRow(OpsGrid)) = Len(HeaderRow(last.before))

\* the second of two such calls, the first of which appended the column
C3_Witness ==
  /\ last.op = "date_column" /\ prev.op = "date_column" /\ last.arg = prev.arg
  /\ prev.writes = 1
  /\ Len(HeaderRow(prev.before)) >= 2

\* C4 (SpecOps): two calls of ensure_rows_for_analytes in a row with the same
\* set of names: the second appends nothing, column A is as the first left it.
C4_RowIdempotent ==
  (last.op = "ensure_rows" /\ prev.op = "ensure_rows"
     /\ Range(last.arg) = Range(prev.arg)) =>
    /\ last.writes = 0
    /\ read_column_a(OpsGrid) = read_column_a(last.before)

\* the second of two such calls, the first of which appended two rows
C4_Witness ==
  /\ last.op = "ensure_rows" /\ prev.op = "ensure_rows"
  /\ Range(last.arg) = Range(prev.arg)
  /\ prev.writes = 1
  /\ Len(read_column_a(last.before)) = Len(read_column_a(prev.before)) + 2

\* C5 (Spec): with one worker at work, a cell of column A or of the header row
\* that holds a text keeps it in every step of row reconciliation, column
\* resolution and value upsert (every step but the header initialisation of a
\* new sheet).
C5_AppendOnly ==
  [][((\E w \in Workers : Alone(w))
        /\ \A w \in Workers : worker[w].pc = "init_header" => worker'[w].pc = "init_header") =>
       \A t \in DOMAIN sheets : \A x \in DOMAIN sheets[t] :
         (x[1] = 1 \/ x[2] = 1) => Cell(sheets'[t], x[1], x[2]) = sheets[t][x]]_vars

\* the sheet has the labels of line 158 in A1:B1
HasLabels(g) == Cell(g, 1, 1) = AnalyteLabel /\ Cell(g, 1, 2) = ReferenceLabel

\* C6 (Spec): with no store failure, in a sheet whose labels are in place, no
\* date is in two columns of the header row, and a worker about to write a
\* cell holds the column (one to the right of the labels) whose header cell is
\* its date.
C6_ColumnPerDate ==
  nfail = 0 =>
    /\ \A t \in DOMAIN sheets : \A c1, c2 \in 1..Len(HeaderRow(sheets[t])) :
         (HasLabels(sheets[t]) /\ c1 # c2 /\ HeaderRow(sheets[t])[c1] \in {D1, D2, Today}) =>
           HeaderRow(sheets[t])[c1] # HeaderRow(sheets[t])[c2]
    /\ \A w \in Workers :
         (worker[w].pc = "cell_write" /\ HasLabels(sheets[worker[w].full_name])
            /\ ColumnOfLetters(worker[w].col_letter) >= 3) =>
           Cell(sheets[worker[w].full_name], 1, ColumnOfLetters(worker[w].col_letter))
             = worker[w].date_str

C8_NoTextNoStore ==
  \A w \in Workers :
    (worker[w].file \in Docs /\ NoText(Document(worker[w].file))) =>
      worker[w].calls = 0 /\ worker[w].outcome # "ok"

\* C9 (Spec): once a store request of the document (other than a cell write)
\* has failed, the document's processing has ended with an error.
C9_FailureAborts ==
  \A w \in Workers :
    worker[w].failed # "none" =>
      /\ worker[w].pc = "idle"
      /\ worker[w].outcome \in
           {"sheet_error", "rows_error", "col_error", "write_error", "crash"}

\* C10 (Spec): when write_values ended after a cell write failed and no other
\* request of the document failed, handle_pdf went on to its last reply, every
\* entry was attempted, and (no other worker at work) every write that
\* succeeded is in the cell it went to.
C10_SiblingWrites ==
  \A w \in Workers :
    (worker[w].pc = "idle" /\ worker[w].cell_failed # {} /\ worker[w].failed = "none") =>
      /\ worker[w].outcome = "ok"
      /\ {x.analyte : x \in worker[w].cell_written} \cup worker[w].cell_failed
           = KeySet(worker[w].values_for_write)
      /\ Alone(w) =>
           \A x \in worker[w].cell_written :
             Cell(sheets[worker[w].full_name], x.row, x.col) = x.value

\* one write failed, the write of the entry after it went through
C10_Witness ==
  \E w \in Workers :
    /\ Completed(w) /\ Alone(w)
    /\ Len(worker[w].values_for_write) = 2
    /\ worker[w].cell_failed = {worker[w].values_for_write[1][1]}
    /\ \E x \in worker[w].cell_written :
         /\ x.analyte = worker[w].values_for_write[2][1]
         /\ Cell(sheets[worker[w].full_name], x.row, x.col) = x.value

\* C11 (Spec): when write_values ended and a cell write of the document had
\* failed, the document is not reported as written: handle_pdf's reply is not
\* the success reply of line 448.
C11_PartialFailureReported ==
  \A w \in Workers :
    (worker[w].pc = "idle" /\ worker[w].cell_failed # {}) => worker[w].outcome # "ok"

\* C12 (Spec): a document whose parsing failed has caused no store request,
\* and its processing has ended.
C12_ParseFailureNoStore ==
  \A w \in Workers :
    worker[w].outcome = "parse_error" => worker[w].pc = "idle" /\ worker[w].calls = 0

\* a parse failure while the other worker is at work on a sheet
C12_Witness ==
  \E w \in Workers :
    /\ worker[w].outcome = "parse_error" /\ worker[w].file = "U"
    /\ \E v \in Workers \ {w} : worker[v].pc = "cell_write"

\* C13 (SpecOps): a call of get_next_date_column with a date that is not in
\* the header row of length n sends one update, returns the letters of column
\* n + 1, leaves the date in header position n + 1 and changes no other cell;
\* with the labels and three dates in A1:E1 it returns F and the date is in F1.
C13_ResolverFrame ==
  (last.op = "date_column" /\ HeaderIndex(HeaderRow(last.before), last.arg) = 0) =>
    LET n == Len(HeaderRow(last.before))
    IN /\ last.writes = 1
       /\ ColumnOfLetters(last.ret) = n + 1
       /\ Cell(OpsGrid, 1, n + 1) = last.arg
       /\ DOMAIN OpsGrid = DOMAIN last.before \cup {<<1, n + 1>>}
       /\ \A x \in DOMAIN last.before : OpsGrid[x] = last.before[x]
       /\ n = 5 => last.ret = <<"F">> /\ Cell(OpsGrid, 1, 6) = last.arg

\* a new date on a sheet with date columns C, D, E and a body row
C13_Witness ==
  /\ last.op = "date_column"
  /\ HeaderRow(last.before) = <<AnalyteLabel, ReferenceLabel, E1, E2, E3>>
  /\ \E x \in DOMAIN last.before : x[1] >= 2
  /\ last.ret = <<"F">>
  /\ Cell(OpsGrid, 1, 6) = last.arg

\* C14 (SpecFun): for every n from 1 to MaxColumn, column_number_to_letter(n)
\* is a non-empty text of letters A..Z whose value in base 26 with the digits
\* 1..26 is n, no other number of the range gives the same text, and
\* 1 -> A, 26 -> Z, 27 -> AA, 52 -> AZ, 53 -> BA.
C14_Bijective ==
  last.op = "column_number_to_letter" =>
    /\ last.ret # <<>>
    /\ \A i \in 1..Len(last.ret) : last.ret[i] \in Range(Letters)
    /\ ColumnOfLetters(last.ret) = last.arg
    /\ \A m \in 1..MaxColumn : m # last.arg => column_number_to_letter(m) # last.ret
    /\ last.arg = 1 => last.ret = <<"A">>
    /\ last.arg = 26 => last.ret = <<"Z">>
    /\ last.arg = 27 => last.ret = <<"A", "A">>
    /\ last.arg = 52 => last.ret = <<"A", "Z">>
    /\ last.arg = 53 => last.ret = <<"B", "A">>

\* the first number of three letters
C14_Witness ==
  /\ last.op = "column_number_to_letter"
  /\ last.arg = 703
  /\ last.ret = <<"A", "A", "A">>

\* two digits, a dot, two digits (the year left out as in every date text)
IsCanonical(t) ==
  /\ Len(t) = 5
  /\ t[3] = "."
  /\ \A i \in {1, 2, 4, 5} : t[i] \in Digits

\* C15 (SpecFun): the date parse_pdf returns is in the canonical form, two
\* digits of day and two of month separated by dots, whichever pattern found it.
C15_CanonicalDate ==
  last.op = "parse_pdf" => IsCanonical(last.ret.date_str)

\* C16 (Spec): when write_values has appended a row for a name that had none
\* and read column A again, the row it goes on to write into is the row whose
\* column-A cell holds that name, whatever the other worker does meanwhile.
C16_InlineAppendRow ==
  [][\A w \in Workers :
       (worker[w].pc = "inline_reread" /\ worker'[w].pc = "cell_write") =>
         Cell(sheets'[worker[w].full_name], worker'[w].row, 1) = Analyte(worker[w])]_vars

\* C17 (Spec): with no store failure, whenever ensure_rows_for_analytes or
\* get_next_date_column is at work on a sheet, the sheet has the two labels
\* in A1:B1.
C17_HeaderInPlace ==
  nfail = 0 =>
    \A w \in Workers :
      worker[w].pc \in {"rows_read", "rows_append", "header_read", "header_write"} =>
        HasLabels(Grid(w))

\* C18 (SpecFun): when the structural pattern matches a line of the document,
\* the analytes parse_pdf returns are the names and values that pattern found,
\* all of them and nothing else; an entry only the token pattern finds is
\* returned only when the structural pattern matched no line.
C18_OneStrategy ==
  last.op = "parse_pdf" =>
    LET lines == NormalizedLines(last.arg.pages)
        prim == {i \in 1..Len(lines) : lines[i].prim # <<>>}
        analytes == last.ret.analytes
    IN /\ prim # {} =>
            /\ KeySet(analytes) = {lines[i].prim[1] : i \in prim}
            /\ \A k \in 1..Len(analytes) :
                 \E i \in prim : lines[i].prim = analytes[k]
       /\ prim = {} =>
            KeySet(analytes) = {lines[i].loose[1] : i \in {j \in 1..Len(lines) : lines[j].loose # <<>>}}

\* a line of each kind: only the structural entry is returned
C18_Witness ==
  /\ last.op = "parse_pdf"
  /\ last.arg.pages = << <<Loose(Hb, <<"6">>), Result(Glu, <<"5">>)>> >>
  /\ last.ret.analytes = << <<Glu, <<"5">> >> >>

\* C19 (Spec): a cell write write_values is about to send goes to row 2 or
\* below and to column C or beyond.
C19_BodyCellOnly ==
  \A w \in Workers :
    worker[w].pc = "cell_write" =>
      worker[w].row >= 2 /\ ColumnOfLetters(worker[w].col_letter) >= 3

============================================================================
